---- MODULE Spec2Model ----
(***************************************************************************)
(* Model of the two DOCX utilities of skills/docx:                         *)
(*   heading_to_akn.py  - heading classifier and section-tree builder      *)
(*   generate_cover.py  - placeholder substitution and archive rewrite     *)
(* Text is a sequence of Unicode code points, bytes are integers 0..255.   *)
(* An Optional value is <<>> (None) or <<v>>.                              *)
(***************************************************************************)
EXTENDS Integers, Sequences, FiniteSets, TLC

VARIABLES
  tool,         \* the entry point that runs: "build" (_build_sections),
                \* "subst" (apply_replacements), "cover" or "akn" (the two main())
  pc,           \* the position of the run
  paragraphs,   \* _build_sections: the (text, style) pairs consumed so far
  sections,     \* _build_sections: arena of Section objects, sections[1] is root
  stack,        \* _build_sections: the list `stack`, as indices into sections
  xml_text,     \* apply_replacements: the argument xml_text
  values,       \* apply_replacements: the argument values, key -> Optional[str]
  updated,      \* apply_replacements: the local `updated`
  counts,       \* apply_replacements: the local `counts`, key -> int
  kidx,         \* apply_replacements: entries of PLACEHOLDERS already processed
  exc,          \* the exception in flight or last raised: <<>> or <<[type, msg]>>
  args,         \* main: the parsed command line
  fs,           \* the file system: resolved path -> file
  fs0,          \* the file system when the run started
  dirs,         \* the directories that exist
  stdout,       \* the lines printed to standard output
  stderr,       \* the lines printed to standard error
  exitcode,     \* the exit status of the process, -1 while it runs
  caught        \* how many times the handler under __main__ caught an exception

buildVars == <<paragraphs, sections, stack>>

substVars == <<xml_text, values, updated, counts, kidx>>

cliVars == <<args, fs, fs0, dirs, stdout, stderr, exitcode, caught>>

vars == <<tool, pc, paragraphs, sections, stack, xml_text, values, updated,
          counts, kidx, exc, args, fs, fs0, dirs, stdout, stderr, exitcode,
          caught>>

----------------------------------------------------------------------------
(* Bounds *)
MaxParas == 4

MaxNodes == 3

----------------------------------------------------------------------------
(* Character classes and string helpers (Python str / re semantics, ASCII). *)

Last(s) == s[Len(s)]

Front(s) == SubSeq(s, 1, Len(s) - 1)

Min(a, b) == IF a <= b THEN a ELSE b

IsDigit(c) == c \in 48..57

IsSpace(c) == c \in {9, 10, 11, 12, 13, 28, 29, 30, 31, 32, 133, 160}

IsWord(c) == c \in 48..57 \/ c \in 65..90 \/ c \in 97..122 \/ c = 95

LowerChar(c) == IF c \in 65..90 THEN c + 32 ELSE c

Lower(s) == [i \in 1..Len(s) |-> LowerChar(s[i])]

\* str.strip(): drop leading and trailing whitespace
Strip(s) ==
  LET keep == {i \in 1..Len(s) : ~IsSpace(s[i])}
  IN  IF keep = {} THEN <<>>
      ELSE SubSeq(s, CHOOSE i \in keep : \A j \in keep : i <= j,
                     CHOOSE i \in keep : \A j \in keep : j <= i)

\* s[from..to] matches the literal lit, ignoring case
MatchLitI(s, from, lit) ==
  /\ from + Len(lit) - 1 <= Len(s)
  /\ \A i \in 1..Len(lit) : LowerChar(s[from + i - 1]) = LowerChar(lit[i])

\* every character of s[from..to] satisfies the class; the range may be empty
AllSpace(s, from, to) == \A i \in from..to : IsSpace(s[i])

AllDigit(s, from, to) == \A i \in from..to : IsDigit(s[i])

AllWordOrDash(s, from, to) == \A i \in from..to : IsWord(s[i]) \/ s[i] = 45

\* `$` of re: the match ends at the end of s or just before a final newline;
\* last is the index of the last character the pattern consumed
AtEnd(s, last) == last = Len(s) \/ (last = Len(s) - 1 /\ s[Len(s)] = 10)

----------------------------------------------------------------------------
(* heading_to_akn.py: paragraph classification *)

HEADING_STYLE_LEVELS ==
  { << <<104,101,97,100,105,110,103,49>>, 1 >>,      \* "heading1"
    << <<104,49>>, 1 >>,                             \* "h1"
    << <<104,101,97,100,105,110,103,50>>, 2 >>,      \* "heading2"
    << <<104,50>>, 2 >>,                             \* "h2"
    << <<104,101,97,100,105,110,103,51>>, 3 >>,      \* "heading3"
    << <<104,51>>, 3 >>,                             \* "h3"
    << <<104,101,97,100,105,110,103,52>>, 4 >>,      \* "heading4"
    << <<104,101,97,100,105,110,103,52,97>>, 4 >>,   \* "heading4a"
    << <<104,52>>, 4 >>,                             \* "h4"
    << <<104,52,97>>, 4 >> }                         \* "h4a"

\* re.match(r"(?i)^<word>\s*([1-4])([aA]?)$", s) with sp = TRUE,
\* re.match(r"(?i)^<word>([1-4])([aA]?)$", s) with sp = FALSE:
\* the set of positions of group 1 (at most one)
LevelDigitAt(s, word, sp) ==
  { i \in (Len(word) + 1)..Len(s) :
      /\ MatchLitI(s, 1, word)
      /\ IF sp THEN AllSpace(s, Len(word) + 1, i - 1) ELSE i = Len(word) + 1
      /\ s[i] \in 49..52
      /\ \/ AtEnd(s, i)
         \/ i + 1 <= Len(s) /\ LowerChar(s[i + 1]) = 97 /\ AtEnd(s, i + 1) }

\* _heading_level(style): Optional[int]
_heading_level(style) ==
  IF style = <<>> \/ style[1] = <<>> THEN <<>>
  ELSE LET s == style[1]
           hit == {e \in HEADING_STYLE_LEVELS : e[1] = Lower(s)}
           m1 == LevelDigitAt(s, <<104,101,97,100,105,110,103>>, TRUE)
           m2 == LevelDigitAt(s, <<104>>, FALSE)
           m  == IF m1 # {} THEN m1 ELSE m2
       IN  IF hit # {} THEN << (CHOOSE e \in hit : TRUE)[2] >>
           ELSE IF m # {} THEN << Min(s[CHOOSE i \in m : TRUE] - 48, 4) >>
           ELSE <<>>

\* CASE_NO_PATTERN.match(t): (?i)^case\s+no\.?\s+[\w-]+$
CASE_NO_PATTERN(t) ==
  /\ MatchLitI(t, 1, <<99,97,115,101>>)
  /\ \E i \in 5..Len(t) :                 \* i: last char of the first \s+
       /\ AllSpace(t, 5, i)
       /\ MatchLitI(t, i + 1, <<110,111>>)
       /\ \E d \in {0, 1} :               \* d: the optional "."
            /\ d = 1 => (i + 3 <= Len(t) /\ t[i + 3] = 46)
            /\ \E k \in (i + 3 + d)..Len(t) :   \* k: last char of the second \s+
                 /\ AllSpace(t, i + 3 + d, k)
                 /\ \E e \in (k + 1)..Len(t) :  \* e: last char of [\w-]+
                      AllWordOrDash(t, k + 1, e) /\ AtEnd(t, e)

\* PAGE_NUMBER_PATTERN.match(t): ^\d+(\s+of\s+\d+)?$ with re.IGNORECASE
PAGE_NUMBER_PATTERN(t) ==
  \E i \in 1..Len(t) :                    \* i: last char of the first \d+
    /\ AllDigit(t, 1, i)
    /\ \/ AtEnd(t, i)
       \/ \E j \in (i + 1)..Len(t) :      \* j: last char of the first \s+
            /\ AllSpace(t, i + 1, j)
            /\ MatchLitI(t, j + 1, <<111,102>>)
            /\ \E k \in (j + 3)..Len(t) : \* k: last char of the second \s+
                 /\ AllSpace(t, j + 3, k)
                 /\ \E e \in (k + 1)..Len(t) :
                      AllDigit(t, k + 1, e) /\ AtEnd(t, e)

_should_skip_paragraph(text) ==
  IF Strip(text) = <<>> THEN TRUE
  ELSE IF CASE_NO_PATTERN(Strip(text)) THEN TRUE
  ELSE IF PAGE_NUMBER_PATTERN(Strip(text)) THEN TRUE
  ELSE FALSE

----------------------------------------------------------------------------
(* heading_to_akn.py: _build_sections *)

Section(title, level) ==
  [title |-> title, level |-> level, content |-> <<>>, children |-> <<>>]

RootTitle == <<114,111,111,116>>                       \* "root"

\* f"Heading{level}"
DefaultTitle(level) == <<72,101,97,100,105,110,103>> \o <<48 + level>>

RECURSIVE PopLoop(_, _, _)
RECURSIVE PopStack_gt(_, _, _)
\* variant of the pop loop that keeps a frame of the same level on the stack
PopStack_gt(secs, st, level) ==
  IF st # <<>> /\ secs[Last(st)].level > level
  THEN PopStack_gt(secs, Front(st), level)
  ELSE st

\* while stack and stack[-1].level >= level: stack.pop()
PopLoop(secs, st, level) ==
  IF st # <<>> /\ secs[Last(st)].level >= level
  THEN PopLoop(secs, Front(st), level)
  ELSE st

\* `if` instead of `while`: pops at most one section
PopStack_once(secs, st, level) ==
  IF st # <<>> /\ secs[Last(st)].level >= level THEN Front(st) ELSE st

\* the stack after the pop loop
PopStack(secs, st, level) == PopLoop(secs, st, level)

\* variant that always attaches to the root
ParentOf_root(st) == 1

\* parent = stack[-1] if stack else root
ParentOf(st) == IF st # <<>> THEN Last(st) ELSE 1

\* variant that appends to the root's content
AppendContent_root(secs, st, text) ==
  [secs EXCEPT ![1].content = Append(@, text)]

\* stack[-1].content.append(text)
AppendContent(secs, st, text) ==
  [secs EXCEPT ![Last(st)].content = Append(@, text)]

\* the paragraphs fed to _build_sections
T_Intro == <<73,110,116,114,111>>                         \* "Intro"
T_CaseNo == <<67,97,115,101,32,78,111,46,32,50,52,45,49,50,51,52>>  \* "Case No. 24-1234"
T_PageOf == <<49,50,32,79,70,32,52,53>>                   \* "12 OF 45"
T_Page3 == <<80,97,103,101,32,51>>                       \* "Page 3"
T_Blank == <<32>>                                        \* " "

S_heading1 == <<104,101,97,100,105,110,103,49>>          \* "heading1"
S_h2 == <<104,50>>                                       \* "h2"
S_Heading_3 == <<72,101,97,100,105,110,103,32,51>>       \* "Heading 3"
S_H4A == <<72,52,65>>                                    \* "H4A"
S_normal == <<110,111,114,109,97,108>>                   \* "normal"
S_heading5 == <<104,101,97,100,105,110,103,53>>          \* "heading5"

Para(text, style) == [text |-> text, style |-> style]

ParaVocab ==
  { Para(T_Intro, <<S_heading1>>), Para(T_Intro, <<S_h2>>),
    Para(<<>>, <<S_Heading_3>>), Para(T_Page3, <<S_H4A>>),
    Para(T_Intro, <<>>), Para(T_CaseNo, <<S_normal>>),
    Para(T_PageOf, <<>>), Para(T_Blank, <<S_heading5>>),
    Para(T_Page3, << <<>> >>) }

BuildStart ==
  /\ tool = "build" /\ pc = "idle"
  /\ pc' = "loop"
  /\ sections' = << Section(RootTitle, 0) >>
  /\ stack' = <<1>>
  /\ UNCHANGED <<tool, paragraphs, substVars, exc, cliVars>>

\* `if level:` of the loop body
IsHeading(p) ==
  _heading_level(p.style) # <<>> /\ _heading_level(p.style)[1] # 0

\* the heading branch of the loop body: the new (sections, stack)
HeadingBranch(secs, st, p) ==
  LET level == _heading_level(p.style)[1]
      st1 == PopStack(secs, st, level)
      parent == ParentOf(st1)
      new == Len(secs) + 1
      title == IF p.text # <<>> THEN p.text ELSE DefaultTitle(level)
  IN  [sections |-> [Append(secs, Section(title, level))
                       EXCEPT ![parent].children = Append(@, new)],
       stack |-> Append(st1, new)]

\* the else branch of the loop body
BodyBranch(secs, st, p) ==
  [sections |-> IF _should_skip_paragraph(p.text) THEN secs
                ELSE AppendContent(secs, st, p.text),
   stack |-> st]

\* one loop iteration on a heading paragraph
BuildHeading(p) ==
  /\ tool = "build" /\ pc = "loop"
  /\ Len(paragraphs) < MaxParas
  /\ IsHeading(p)
  /\ sections' = HeadingBranch(sections, stack, p).sections
  /\ stack' = HeadingBranch(sections, stack, p).stack
  /\ paragraphs' = Append(paragraphs, p)
  /\ UNCHANGED <<tool, pc, substVars, exc, cliVars>>

\* one loop iteration on a non-heading paragraph
BuildBody(p) ==
  /\ tool = "build" /\ pc = "loop"
  /\ Len(paragraphs) < MaxParas
  /\ ~IsHeading(p)
  /\ sections' = BodyBranch(sections, stack, p).sections
  /\ stack' = BodyBranch(sections, stack, p).stack
  /\ paragraphs' = Append(paragraphs, p)
  /\ UNCHANGED <<tool, pc, substVars, exc, cliVars>>

\* the iterable is exhausted: return root
BuildReturn ==
  /\ tool = "build" /\ pc = "loop"
  /\ pc' = "done"
  /\ UNCHANGED <<tool, buildVars, substVars, exc, cliVars>>

BuildIdle == paragraphs = <<>> /\ sections = <<>> /\ stack = <<>>

SubstIdle ==
  /\ xml_text = <<>> /\ values = <<>> /\ updated = <<>>
  /\ counts = <<>> /\ kidx = 0

P_in == "in.docx"          \* the template / the source DOCX

P_link == "link.docx"      \* a symbolic link to in.docx

P_out == "out/result"      \* a path in a directory that does not exist yet

\* Path.resolve()
Resolve(p) == IF p = P_link THEN P_in ELSE p

\* Path.parent
Parent(p) == IF p = P_out THEN "out" ELSE "."

NoFile == [kind |-> "none"]

RawFile == [kind |-> "raw"]                     \* a file that is not a zip archive

ZipFile(entries) == [kind |-> "zip", entries |-> entries]

CliIdle ==
  /\ stdout = <<>> /\ stderr = <<>> /\ exitcode = -1 /\ caught = 0
  /\ dirs = {"."}
  /\ fs0 = fs

NoCli ==
  /\ args = <<>>
  /\ fs = [p \in {P_in, P_out} |-> NoFile]
  /\ CliIdle

InitBuild ==
  /\ tool = "build" /\ pc = "idle"
  /\ BuildIdle /\ SubstIdle /\ NoCli
  /\ exc = <<>>

NextBuild ==
  \/ BuildStart
  \/ \E p \in ParaVocab : BuildHeading(p)
  \/ \E p \in ParaVocab : BuildBody(p)
  \/ BuildReturn

SpecBuild == InitBuild /\ [][NextBuild]_vars

----------------------------------------------------------------------------
(* generate_cover.py: placeholder substitution *)

K_case == "case_number"

K_filing == "filing_name"

K_judge == "judge"

PH_case == <<78,111,46,32,54,52,54,49>>                   \* "No. 6461"

PH_filing == <<65,80,80,69,76,76,65,78,84,83,32,79,80,69,78,73,78,71,32,
               66,82,73,69,70>>                           \* "APPELLANTS OPENING BRIEF"

PH_judge == <<72,111,110,46,32,83,116,97,99,121,32,66,101,99,107,101,114,
              109,97,110>>                                \* "Hon. Stacy Beckerman"

\* the dict PLACEHOLDERS in its insertion order; shown is the placeholder as it
\* appears in messages
PLACEHOLDERS ==
  << [key |-> K_case, text |-> PH_case, shown |-> "No. 6461"],
     [key |-> K_filing, text |-> PH_filing, shown |-> "APPELLANTS OPENING BRIEF"],
     [key |-> K_judge, text |-> PH_judge, shown |-> "Hon. Stacy Beckerman"] >>

Keys == {PLACEHOLDERS[i].key : i \in 1..Len(PLACEHOLDERS)}

LT == 60   \* "<"

GT == 62   \* ">"

TagWT == <<60,119,58,116>>              \* "<w:t"

CloseWT == <<60,47,119,58,116,62>>      \* "</w:t>"

\* s[from..] starts with lit
StartsAt(s, from, lit) ==
  /\ from + Len(lit) - 1 <= Len(s)
  /\ \A i \in 1..Len(lit) : s[from + i - 1] = lit[i]

\* index of the first ">" at or after from, 0 if none
FirstGT(s, from) ==
  LET gs == {g \in from..Len(s) : s[g] = GT}
  IN  IF gs = {} THEN 0 ELSE CHOOSE g \in gs : \A h \in gs : g <= h

\* the pattern (<w:t[^>]*>)placeholder(</w:t>) matches with its first
\* character at i: "<w:t", then everything up to the first ">", then the
\* literal placeholder, then "</w:t>"
MatchesAt(s, ph, i) ==
  /\ StartsAt(s, i, TagWT)
  /\ LET g == FirstGT(s, i + 4)
     IN  /\ g # 0
         /\ StartsAt(s, g + 1, ph)
         /\ StartsAt(s, g + 1 + Len(ph), CloseWT)

\* pattern.finditer(xml_text): the non-overlapping matches from pos on, left to
\* right, each as [gt |-> index of the ">" that ends group 1,
\*                 end |-> index of the last character of the match]
RECURSIVE FindIter(_, _, _)
FindIter(s, ph, pos) ==
  LET starts == {i \in pos..Len(s) : MatchesAt(s, ph, i)}
  IN  IF starts = {} THEN <<>>
      ELSE LET i == CHOOSE a \in starts : \A b \in starts : a <= b
               g == FirstGT(s, i + 4)
               e == g + Len(ph) + Len(CloseWT)
           IN  << [gt |-> g, end |-> e] >> \o FindIter(s, ph, e + 1)

\* html.escape(s), quote=True
RECURSIVE HtmlEscape(_)
HtmlEscape(s) ==
  IF s = <<>> THEN <<>>
  ELSE LET c == s[1]
           r == IF c = 38 THEN <<38,97,109,112,59>>            \* & -> &amp;
                ELSE IF c = 60 THEN <<38,108,116,59>>           \* < -> &lt;
                ELSE IF c = 62 THEN <<38,103,116,59>>           \* > -> &gt;
                ELSE IF c = 34 THEN <<38,113,117,111,116,59>>   \* " -> &quot;
                ELSE IF c = 39 THEN <<38,35,120,50,55,59>>      \* ' -> &#x27;
                ELSE <<c>>
       IN  r \o HtmlEscape(Tail(s))

\* pattern.sub(lambda m: group(1) + escaped_value + group(2), xml_text):
\* the text from pos on with the matches ms[k..] rewritten
RECURSIVE SubFrom(_, _, _, _, _)
SubFrom(s, ms, k, pos, escaped) ==
  IF k > Len(ms) THEN SubSeq(s, pos, Len(s))
  ELSE SubSeq(s, pos, ms[k].gt) \o escaped \o CloseWT
         \o SubFrom(s, ms, k + 1, ms[k].end + 1, escaped)

\* an exception object
Exc(type, fmt, arg) == [type |-> type, msg |-> <<fmt, arg>>]

\* the result of a call: the raised exception or the returned value
Raise(e) == [exc |-> <<e>>, val |-> <<>>]

Return(v) == [exc |-> <<>>, val |-> <<v>>]

\* _scoped_replace without the zero-match check
_scoped_replace_nocheck(s, p, replacement) ==
  LET matches == FindIter(s, p.text, 1)
  IN  Return([updated |-> SubFrom(s, matches, 1, 1, HtmlEscape(replacement)),
              count |-> Len(matches)])

\* _scoped_replace(xml_text, placeholder, replacement); p is the PLACEHOLDERS
\* entry of the placeholder
_scoped_replace(s, p, replacement) ==
  LET matches == FindIter(s, p.text, 1)
  IN  IF matches = <<>>
      THEN Raise(Exc("ValueError", "Placeholder '{}' not found in any <w:t> node",
                     p.shown))
      ELSE Return([updated |-> SubFrom(s, matches, 1, 1, HtmlEscape(replacement)),
                   count |-> Len(matches)])

----------------------------------------------------------------------------
(* defusedxml.ElementTree.fromstring, as far as well-formedness goes:         *)
(* elements nest, there is exactly one root, text lies inside the root, a "&"  *)
(* starts an entity reference, no control characters.  Attributes are not      *)
(* inspected.                                                                  *)

XmlChar(c) == c \in {9, 10, 13} \/ c >= 32

XmlSpace(c) == c \in {9, 10, 13, 32}

NameChar(c) == IsWord(c) \/ c \in {45, 46, 58}

EntityNames ==
  { <<97,109,112>>, <<108,116>>, <<103,116>>, <<113,117,111,116>>,
    <<97,112,111,115>>, <<35,120,50,55>> }   \* amp lt gt quot apos #x27

\* a reference "&name;" starts at i
EntityAt(s, i) ==
  \E e \in (i + 2)..Len(s) : s[e] = 59 /\ SubSeq(s, i + 1, e - 1) \in EntityNames

\* the element name of the tag body b (the text between "<" and ">")
TagName(b) ==
  LET stop == {i \in 1..Len(b) : ~NameChar(b[i])}
  IN  IF stop = {} THEN b
      ELSE SubSeq(b, 1, (CHOOSE i \in stop : \A j \in stop : i <= j) - 1)

\* the text s[from..to] is legal character data; inside says whether an
\* element is open
TextOk(s, from, to, inside) ==
  \A i \in from..to :
    /\ XmlChar(s[i])
    /\ inside \/ XmlSpace(s[i])
    /\ s[i] = 38 => EntityAt(s, i)

\* scan from pos with the open elements `open` and `roots` root elements seen
RECURSIVE Scan(_, _, _, _)
Scan(s, pos, open, roots) ==
  IF pos > Len(s) THEN open = <<>> /\ roots = 1
  ELSE IF s[pos] = LT
  THEN LET g == FirstGT(s, pos + 1)
           b == SubSeq(s, pos + 1, g - 1)
       IN  /\ g # 0
           /\ b # <<>>
           /\ \A i \in 1..Len(b) : b[i] # LT /\ XmlChar(b[i])
           /\ IF b[1] = 47                                    \* end tag
              THEN /\ open # <<>>
                   /\ Last(open) = Tail(b)
                   /\ Scan(s, g + 1, Front(open), roots)
              ELSE /\ TagName(b) # <<>>
                   /\ open = <<>> => roots = 0
                   /\ Scan(s, g + 1,
                           IF Last(b) = 47 THEN open ELSE Append(open, TagName(b)),
                           IF open = <<>> THEN roots + 1 ELSE roots)
  ELSE LET ls == {i \in pos..Len(s) : s[i] = LT}
           nxt == IF ls = {} THEN Len(s) + 1
                  ELSE CHOOSE i \in ls : \A j \in ls : i <= j
       IN  /\ TextOk(s, pos, nxt - 1, open # <<>>)
           /\ Scan(s, nxt, open, roots)

WellFormed(s) == Scan(s, 1, <<>>, 0)

\* _validate_xml that accepts everything
_validate_xml_skip(s, p) == <<>>

\* _validate_xml(xml_text, context): the exception raised, if any
_validate_xml(s, p) ==
  IF WellFormed(s) THEN <<>>
  ELSE << Exc("ValueError", "XML became invalid after replacing {}: ...", p.shown) >>

----------------------------------------------------------------------------
(* generate_cover.py: apply_replacements, one loop iteration per step *)

EmptyDict == [x \in {} |-> 0]

DictSet(d, k, v) == [x \in DOMAIN d \cup {k} |-> IF x = k THEN v ELSE d[x]]

\* the body of the for loop for the entry p of PLACEHOLDERS, on the locals
\* upd and cnt: the exception raised, or the new locals
ReplaceIteration(upd, cnt, vals, p) ==
  LET replacement == vals[p.key]
  IN  IF replacement = <<>>
      THEN Raise(Exc("ValueError", "Missing replacement value for {}", p.key))
      ELSE LET r == _scoped_replace(upd, p, replacement[1])
           IN  IF r.exc # <<>> THEN Raise(r.exc[1])
               ELSE LET v == _validate_xml(r.val[1].updated, p)
                    IN  IF v # <<>> THEN Raise(v[1])
                        ELSE Return([updated |-> r.val[1].updated,
                                     counts |-> DictSet(cnt, p.key, r.val[1].count)])

\* apply_replacements(xml_text, values), all iterations from the k-th on
RECURSIVE ApplyFrom(_, _, _, _)
ApplyFrom(upd, cnt, vals, k) ==
  IF k > Len(PLACEHOLDERS) THEN Return([updated |-> upd, counts |-> cnt])
  ELSE LET r == ReplaceIteration(upd, cnt, vals, PLACEHOLDERS[k])
       IN  IF r.exc # <<>> THEN r
           ELSE ApplyFrom(r.val[1].updated, r.val[1].counts, vals, k + 1)

apply_replacements(s, vals) == ApplyFrom(s, EmptyDict, vals, 1)

\* updated = xml_text; counts = {}
ApplyStart ==
  /\ pc = "apply_call"
  /\ pc' = "apply_loop"
  /\ updated' = xml_text
  /\ counts' = EmptyDict
  /\ kidx' = 0
  /\ UNCHANGED <<tool, buildVars, xml_text, values, exc, cliVars>>

\* one iteration of the for loop: it completes or it raises
ReplaceKey ==
  /\ pc = "apply_loop"
  /\ kidx < Len(PLACEHOLDERS)
  /\ \E r \in {ReplaceIteration(updated, counts, values, PLACEHOLDERS[kidx + 1])} :
       IF r.exc # <<>>
       THEN /\ exc' = r.exc
            /\ pc' = "raised"
            /\ UNCHANGED <<updated, counts, kidx>>
       ELSE /\ updated' = r.val[1].updated
            /\ counts' = r.val[1].counts
            /\ kidx' = kidx + 1
            /\ UNCHANGED <<pc, exc>>
  /\ UNCHANGED <<tool, buildVars, xml_text, values, cliVars>>

\* return updated, counts
ApplyReturn ==
  /\ pc = "apply_loop"
  /\ kidx = Len(PLACEHOLDERS)
  /\ pc' = "applied"
  /\ UNCHANGED <<tool, buildVars, substVars, exc, cliVars>>

\* the template documents: a body holding up to MaxNodes runs
N_case == <<60,119,58,116,62,78,111,46,32,54,52,54,49,60,47,119,58,116,62>>
  \* <w:t>No. 6461</w:t>

N_filing == <<60,119,58,116,32,120,109,108,58,115,112,97,99,101,61,34,112,114,
              101,115,101,114,118,101,34,62,65,80,80,69,76,76,65,78,84,83,32,79,
              80,69,78,73,78,71,32,66,82,73,69,70,60,47,119,58,116,62>>
  \* <w:t xml:space="preserve">APPELLANTS OPENING BRIEF</w:t>

N_judge == <<60,119,58,116,62,72,111,110,46,32,83,116,97,99,121,32,66,101,99,
             107,101,114,109,97,110,60,47,119,58,116,62>>
  \* <w:t>Hon. Stacy Beckerman</w:t>

N_other == <<60,119,58,116,62,78,111,46,32,54,52,54,49,46,60,47,119,58,116,62>>
  \* <w:t>No. 6461.</w:t>

BodyOpen == <<60,119,58,98,111,100,121,32,120,109,108,110,115,58,119,61,
              34,119,34,62>>                              \* <w:body xmlns:w="w">

BodyClose == <<60,47,119,58,98,111,100,121,62>>           \* </w:body>

RECURSIVE Concat(_)
Concat(ss) == IF ss = <<>> THEN <<>> ELSE ss[1] \o Concat(Tail(ss))

SeqsUpTo(S, n) == UNION {[1..m -> S] : m \in 0..n}

Templates(vocab) ==
  {BodyOpen \o Concat(ns) \o BodyClose : ns \in SeqsUpTo(vocab, MaxNodes)}

\* replacement values
V_amp == <<65,38,233>>                                    \* "A&é"

V_ctrl == <<78,111,11>>                                   \* "No\x0b"

InitSubst ==
  /\ tool = "subst" /\ pc = "apply_call"
  /\ BuildIdle
  /\ xml_text \in Templates({N_case, N_filing, N_judge, N_other})
  /\ values \in [Keys -> {<<>>, <<V_amp>>, <<PH_case>>, <<PH_filing>>, <<PH_judge>>}]
  /\ updated = <<>> /\ counts = <<>> /\ kidx = 0
  /\ NoCli
  /\ exc = <<>>

NextSubst ==
  \/ ApplyStart
  \/ ReplaceKey
  \/ ApplyReturn

SpecSubst == InitSubst /\ [][NextSubst]_vars

----------------------------------------------------------------------------
(* The file system and the archives *)

DocName == "word/document.xml"

\* the UTF-8 bytes of the code point c
Utf8Bytes(c) ==
  IF c < 128 THEN <<c>>
  ELSE IF c < 2048 THEN <<192 + (c \div 64), 128 + (c % 64)>>
  ELSE <<224 + (c \div 4096), 128 + ((c \div 64) % 64), 128 + (c % 64)>>

\* str.encode("utf-8"), by halves
RECURSIVE Utf8Encode(_)
Utf8Encode(s) ==
  IF s = <<>> THEN <<>>
  ELSE IF Len(s) = 1 THEN Utf8Bytes(s[1])
  ELSE Utf8Encode(SubSeq(s, 1, Len(s) \div 2))
         \o Utf8Encode(SubSeq(s, Len(s) \div 2 + 1, Len(s)))

\* the code point of the UTF-8 sequence b[lo..hi]
Utf8Point(b, lo, hi) ==
  IF hi = lo THEN b[lo]
  ELSE IF hi = lo + 1 THEN (b[lo] - 192) * 64 + (b[hi] - 128)
  ELSE (b[lo] - 224) * 4096 + (b[lo + 1] - 128) * 64 + (b[hi] - 128)

\* bytes.decode("utf-8") of the well-formed b[lo..hi], split at the first byte
\* of a character near the middle
RECURSIVE Utf8DecodeRange(_, _, _)
Utf8DecodeRange(b, lo, hi) ==
  IF lo > hi THEN <<>>
  ELSE LET leads == {i \in (lo + 1)..hi : b[i] \notin 128..191}
           mid == (lo + hi + 1) \div 2
           far(i) == IF i >= mid THEN i - mid ELSE mid - i
       IN  IF leads = {} THEN << Utf8Point(b, lo, hi) >>
           ELSE LET m == CHOOSE i \in leads :
                           \A j \in leads : far(i) < far(j) \/ (far(i) = far(j) /\ i <= j)
                IN  Utf8DecodeRange(b, lo, m - 1) \o Utf8DecodeRange(b, m, hi)

Utf8Decode(b) == Utf8DecodeRange(b, 1, Len(b))

\* ZipFile.read(name): the data of the last entry of that name, KeyError if none
ZipRead(entries, name) ==
  LET hits == {i \in 1..Len(entries) : entries[i].filename = name}
  IN  IF hits = {} THEN Raise(Exc("KeyError", "There is no item named {} in the archive", name))
      ELSE Return(entries[CHOOSE i \in hits : \A j \in hits : j <= i].data)

\* the open of zipfile.ZipFile(path, "r")
ZipOpen(f) ==
  IF f.kind = "zip" THEN Return(f.entries)
  ELSE Raise(Exc("BadZipFile", "File is not a zip file", ""))

\* generate_cover._read_document_xml(template_path)
CoverReadDocumentXml(f) ==
  LET z == ZipOpen(f)
  IN  IF z.exc # <<>> THEN z
      ELSE LET r == ZipRead(z.val[1], DocName)
           IN  IF r.exc # <<>>
               THEN Raise(Exc("ValueError", "word/document.xml not found in template", ""))
               ELSE Return(Utf8Decode(r.val[1]))

\* the loop body of write_docx that never substitutes
EntryData_keep(e, xml) == e.data

\* data = updated_xml.encode("utf-8") if info.filename == "word/document.xml"
\*        else src.read(info)
EntryData(e, xml) == IF e.filename = DocName THEN Utf8Encode(xml) ELSE e.data

\* the archive written by the with block of write_docx
Repackaged(entries, updated_xml) ==
  ZipFile([i \in 1..Len(entries) |->
             [entries[i] EXCEPT !.data = EntryData(entries[i], updated_xml)]])

\* what a call leaves behind: the exception raised if any, and the file system
Outcome(e, files, ds) == [exc |-> e, fs |-> files, dirs |-> ds]

\* the part of write_docx after the path check
WriteArchive(files, ds, template_path, output_path, updated_xml) ==
  LET ds1 == ds \cup {Parent(output_path)}
      src == ZipOpen(files[Resolve(template_path)])
  IN  IF src.exc # <<>> THEN Outcome(src.exc, files, ds1)
      ELSE Outcome(<<>>, [files EXCEPT ![Resolve(output_path)] =
                            Repackaged(src.val[1], updated_xml)], ds1)

\* write_docx without the path check
write_docx_nocheck(files, ds, template_path, output_path, updated_xml) ==
  WriteArchive(files, ds, template_path, output_path, updated_xml)

\* write_docx(template_path, output_path, updated_xml) on the file system
\* (files, ds)
write_docx(files, ds, template_path, output_path, updated_xml) ==
  IF Resolve(output_path) = Resolve(template_path)
  THEN Outcome(<< Exc("ValueError",
                      "Output path must differ from template to preserve the source file",
                      "") >>, files, ds)
  ELSE WriteArchive(files, ds, template_path, output_path, updated_xml)

----------------------------------------------------------------------------
(* generate_cover.py: main and the handler under __main__ *)

\* if not template.exists(): raise SystemExit(...)
CoverCheckTemplate ==
  /\ tool = "cover" /\ pc = "main"
  /\ IF fs[Resolve(args.template)].kind = "none"
     THEN /\ exc' = << Exc("SystemExit", "Template not found: {}", args.template) >>
          /\ pc' = "raised"
     ELSE /\ pc' = "read"
          /\ UNCHANGED exc
  /\ UNCHANGED <<tool, buildVars, substVars, cliVars>>

\* xml_text = _read_document_xml(template)
CoverRead ==
  /\ tool = "cover" /\ pc = "read"
  /\ \E r \in {CoverReadDocumentXml(fs[Resolve(args.template)])} :
       IF r.exc # <<>>
       THEN /\ exc' = r.exc
            /\ pc' = "raised"
            /\ UNCHANGED xml_text
       ELSE /\ xml_text' = r.val[1]
            /\ pc' = "apply_call"
            /\ UNCHANGED exc
  /\ UNCHANGED <<tool, buildVars, values, updated, counts, kidx, cliVars>>

DryRunReport ==
  << <<"Dry run: proposed replacements">> >>
  \o [i \in 1..Len(PLACEHOLDERS) |->
        <<"- {}: '{}' -> '{}' (matches: {})", PLACEHOLDERS[i].key,
          PLACEHOLDERS[i].shown, values[PLACEHOLDERS[i].key][1],
          IF PLACEHOLDERS[i].key \in DOMAIN counts
          THEN counts[PLACEHOLDERS[i].key] ELSE 0>>]
  \o << <<"No files were written (dry run).">> >>

\* if args.dry_run: print the report; return
CoverDryRun ==
  /\ tool = "cover" /\ pc = "applied"
  /\ args.dry_run
  /\ stdout' = stdout \o DryRunReport
  /\ pc' = "exit"
  /\ exitcode' = 0
  /\ UNCHANGED <<tool, buildVars, substVars, exc, args, fs0, fs, dirs, stderr, caught>>

\* write_docx(template, output, updated_xml); print(...)
CoverWrite ==
  /\ tool = "cover" /\ pc = "applied"
  /\ ~args.dry_run
  /\ \E r \in {write_docx(fs, dirs, args.template, args.output, updated)} :
       /\ fs' = r.fs
       /\ dirs' = r.dirs
       /\ IF r.exc # <<>>
          THEN /\ exc' = r.exc
               /\ pc' = "raised"
               /\ UNCHANGED <<stdout, exitcode>>
          ELSE /\ stdout' = Append(stdout, <<"Generated cover saved to {}", args.output>>)
               /\ pc' = "exit"
               /\ exitcode' = 0
               /\ UNCHANGED exc
  /\ UNCHANGED <<tool, buildVars, substVars, args, fs0, stderr, caught>>

\* except Exception as exc: print(f"Error: {exc}", file=sys.stderr); sys.exit(1)
HandleException ==
  /\ tool \in {"cover", "akn"} /\ pc = "raised"
  /\ exc[1].type # "SystemExit"
  /\ stderr' = Append(stderr, [prefix |-> "Error: ", msg |-> exc[1].msg])
  /\ caught' = caught + 1
  /\ exitcode' = 1
  /\ pc' = "exit"
  /\ UNCHANGED <<tool, buildVars, substVars, exc, args, fs0, fs, dirs, stdout>>

\* SystemExit is not an Exception: it passes the handler, and the interpreter
\* prints its string argument to stderr and exits with status 1
SystemExitPropagates ==
  /\ tool \in {"cover", "akn"} /\ pc = "raised"
  /\ exc[1].type = "SystemExit"
  /\ stderr' = Append(stderr, [prefix |-> "", msg |-> exc[1].msg])
  /\ exitcode' = 1
  /\ pc' = "exit"
  /\ UNCHANGED <<tool, buildVars, substVars, exc, args, fs0, fs, dirs, stdout, caught>>

----------------------------------------------------------------------------
(* heading_to_akn.py: main *)

\* the part word/document.xml of a source DOCX, by what parsing it gives:
\* not well-formed, or its w:p elements as (text of the w:t nodes, w:pStyle val)
BadXml == [wf |-> FALSE, paras |-> <<>>]

GoodXml(ps) == [wf |-> TRUE, paras |-> ps]

\* heading_to_akn._read_document_xml(docx_path)
AknReadDocumentXml(f) ==
  LET z == ZipOpen(f)
  IN  IF z.exc # <<>> THEN z
      ELSE LET r == ZipRead(z.val[1], DocName)
           IN  IF r.exc # <<>>
               THEN Raise(Exc("ValueError", "word/document.xml not found in DOCX", ""))
               ELSE r

\* list(_extract_paragraphs(document_xml)): text is stripped, style lowercased
_extract_paragraphs(doc) ==
  IF ~doc.wf THEN Raise(Exc("ParseError", "not well-formed", ""))
  ELSE Return([i \in 1..Len(doc.paras) |->
                 Para(Strip(doc.paras[i].text),
                      IF doc.paras[i].style # <<>> /\ doc.paras[i].style[1] # <<>>
                      THEN << Lower(doc.paras[i].style[1]) >> ELSE <<>>)])

\* _build_sections(paragraphs): the loop from the k-th paragraph on
RECURSIVE BuildFrom(_, _, _, _)
BuildFrom(secs, st, ps, k) ==
  IF k > Len(ps) THEN secs
  ELSE LET r == IF IsHeading(ps[k]) THEN HeadingBranch(secs, st, ps[k])
                ELSE BodyBranch(secs, st, ps[k])
       IN  BuildFrom(r.sections, r.stack, ps, k + 1)

_build_sections(ps) == BuildFrom(<< Section(RootTitle, 0) >>, <<1>>, ps, 1)

IsAlnum(c) == c \in 48..57 \/ c \in 65..90 \/ c \in 97..122

\* re.sub(r"[^A-Za-z0-9]+", "-", t): every run of other characters becomes "-"
RECURSIVE Hyphenate(_, _)
Hyphenate(t, i) ==
  IF i > Len(t) THEN <<>>
  ELSE (IF IsAlnum(t[i]) THEN <<t[i]>>
        ELSE IF i = 1 \/ IsAlnum(t[i - 1]) THEN <<45>> ELSE <<>>)
       \o Hyphenate(t, i + 1)

\* str.strip("-")
StripHyphens(s) ==
  LET keep == {i \in 1..Len(s) : s[i] # 45}
  IN  IF keep = {} THEN <<>>
      ELSE SubSeq(s, CHOOSE i \in keep : \A j \in keep : i <= j,
                     CHOOSE i \in keep : \A j \in keep : j <= i)

_slugify(text) ==
  LET cleaned == StripHyphens(Hyphenate(Lower(Strip(text)), 1))
  IN  IF cleaned # <<>> THEN cleaned ELSE <<115,101,99,116,105,111,110>>  \* "section"

\* _section_to_xml(section) for the section secs[i]
RECURSIVE _section_to_xml(_, _)
_section_to_xml(secs, i) ==
  [tag |-> "section",
   id |-> _slugify(secs[i].title),
   level |-> <<48 + secs[i].level>>,
   heading |-> secs[i].title,
   p |-> secs[i].content,
   sections |-> [k \in 1..Len(secs[i].children) |->
                   _section_to_xml(secs, secs[i].children[k])]]

\* build_akn_tree(root): akomaNtoso > judgment > body > the root's children
build_akn_tree(secs) ==
  [tag |-> "akomaNtoso",
   body |-> [k \in 1..Len(secs[1].children) |->
               _section_to_xml(secs, secs[1].children[k])]]

\* _print_outline(section, indent): the lines printed for secs[i]
RECURSIVE _print_outline(_, _, _)
_print_outline(secs, i, indent) ==
  << <<"{}H{}: {}", indent, secs[i].level, secs[i].title>> >>
  \o Concat([k \in 1..Len(secs[i].children) |->
               _print_outline(secs, secs[i].children[k], indent + 1)])

\* if not args.docx_path.exists(): raise SystemExit(...)
AknCheckInput ==
  /\ tool = "akn" /\ pc = "main"
  /\ IF fs[Resolve(args.docx_path)].kind = "none"
     THEN /\ exc' = << Exc("SystemExit", "Input DOCX not found: {}", args.docx_path) >>
          /\ pc' = "raised"
     ELSE /\ pc' = "read"
          /\ UNCHANGED exc
  /\ UNCHANGED <<tool, buildVars, substVars, cliVars>>

\* document_xml = _read_document_xml(...); paragraphs = list(_extract_paragraphs(...));
\* sections_root = _build_sections(paragraphs)
AknReadAndBuild ==
  /\ tool = "akn" /\ pc = "read"
  /\ \E r \in {AknReadDocumentXml(fs[Resolve(args.docx_path)])} :
       IF r.exc # <<>>
       THEN /\ exc' = r.exc
            /\ pc' = "raised"
            /\ UNCHANGED <<paragraphs, sections>>
       ELSE \E ps \in {_extract_paragraphs(r.val[1])} :
              IF ps.exc # <<>>
              THEN /\ exc' = ps.exc
                   /\ pc' = "raised"
                   /\ UNCHANGED <<paragraphs, sections>>
              ELSE /\ paragraphs' = ps.val[1]
                   /\ sections' = _build_sections(ps.val[1])
                   /\ pc' = "built"
                   /\ UNCHANGED exc
  /\ UNCHANGED <<tool, stack, substVars, cliVars>>

\* the --toc outline, build_akn_tree, save_xml and the final print
AknEmit ==
  /\ tool = "akn" /\ pc = "built"
  /\ stdout' = stdout
       \o (IF args.toc
           THEN Concat([k \in 1..Len(sections[1].children) |->
                          _print_outline(sections, sections[1].children[k], 0)])
           ELSE <<>>)
       \o << <<"Akoma Ntoso XML written to {}", args.output_xml>> >>
  /\ dirs' = dirs \cup {Parent(args.output_xml)}
  /\ fs' = [fs EXCEPT ![Resolve(args.output_xml)] =
              [kind |-> "xml", tree |-> build_akn_tree(sections)]]
  /\ pc' = "exit"
  /\ exitcode' = 0
  /\ UNCHANGED <<tool, buildVars, substVars, exc, args, fs0, stderr, caught>>

----------------------------------------------------------------------------
(* The runs of the two command-line tools *)

E_types == [filename |-> "[Content_Types].xml", info |-> "deflated",
            data |-> <<60,120,109,108,47,62>>]

E_styles == [filename |-> "word/styles.xml", info |-> "stored",
             data |-> <<255,0,128>>]

E_doc(data) == [filename |-> DocName, info |-> "deflated", data |-> data]

\* the archives holding the document part xml
Archives(xml) ==
  { << E_types, E_doc(Utf8Encode(xml)), E_styles >>,
    << E_doc(<<60,120,109,108,47,62>>), E_types, E_doc(Utf8Encode(xml)) >> }

AknMaxParas == 2

InitCover ==
  /\ tool = "cover" /\ pc = "main"
  /\ BuildIdle
  /\ xml_text = <<>> /\ updated = <<>> /\ counts = <<>> /\ kidx = 0
  /\ values \in {v \in [Keys -> {<<V_amp>>, <<V_ctrl>>}] :
                    Cardinality({k \in Keys : v[k] = <<V_ctrl>>}) <= 1}
  /\ args \in [template : {P_in, P_link}, output : {P_in, P_out}, dry_run : BOOLEAN]
  /\ \E f \in {NoFile, RawFile, ZipFile(<< E_types, E_styles >>)}
              \cup {ZipFile(a) : a \in UNION {Archives(t) :
                                    t \in Templates({N_case, N_filing, N_judge})}} :
       fs = [p \in {P_in, P_out} |-> IF p = P_in THEN f ELSE NoFile]
  /\ CliIdle
  /\ exc = <<>>

InitAkn ==
  /\ tool = "akn" /\ pc = "main"
  /\ BuildIdle /\ SubstIdle
  /\ args \in [docx_path : {P_in, P_link}, output_xml : {P_out}, toc : BOOLEAN]
  /\ \E f \in {NoFile, RawFile, ZipFile(<< E_types, E_styles >>),
               ZipFile(<< E_types, E_doc(BadXml) >>)}
              \cup {ZipFile(<< E_types, E_doc(GoodXml(ps)) >>) :
                      ps \in SeqsUpTo(ParaVocab, AknMaxParas)} :
       fs = [p \in {P_in, P_out} |-> IF p = P_in THEN f ELSE NoFile]
  /\ CliIdle
  /\ exc = <<>>

Init == InitCover \/ InitAkn

Next ==
  \/ CoverCheckTemplate
  \/ CoverRead
  \/ ApplyStart
  \/ ReplaceKey
  \/ ApplyReturn
  \/ CoverDryRun
  \/ CoverWrite
  \/ AknCheckInput
  \/ AknReadAndBuild
  \/ AknEmit
  \/ HandleException
  \/ SystemExitPropagates

Spec == Init /\ [][Next]_vars

----------------------------------------------------------------------------
(* Properties of _build_sections *)

Max(S) == CHOOSE x \in S : \A y \in S : y <= x

\* the levels of the heading paragraphs consumed so far, in order
RECURSIVE LevelsOf(_)
LevelsOf(ps) ==
  IF ps = <<>> THEN <<>>
  ELSE IF IsHeading(Last(ps))
       THEN Append(LevelsOf(Front(ps)), _heading_level(Last(ps).style)[1])
       ELSE LevelsOf(Front(ps))

HeadLevels == LevelsOf(paragraphs)

\* heading j is still open after heading n: no later heading up to n is of equal
\* or shallower level
OpenAfter(lv, j, n) == \A k \in (j + 1)..n : lv[k] > lv[j]

\* arena index of the section under which heading i must hang
ExpectedParent(lv, i) ==
  LET c == {j \in 1..(i - 1) : lv[j] < lv[i] /\ OpenAfter(lv, j, i - 1)}
  IN  IF c = {} THEN 1 ELSE Max(c) + 1

\* the arena indices in whose children list section s occurs, with multiplicity
ParentsOf(s) ==
  {<<q, k>> \in (1..Len(sections)) \X (1..Len(sections)) :
      k <= Len(sections[q].children) /\ sections[q].children[k] = s}

\* C1: in the returned tree every child Section has a level strictly greater
\* than its parent's; the root has level 0, every other section a level in 1..4.
C1_TreeLevelsIncrease ==
  (tool = "build" /\ pc = "done") =>
    /\ sections[1].level = 0
    /\ \A i \in 2..Len(sections) : sections[i].level \in 1..4
    /\ \A i \in 1..Len(sections) : \A k \in 1..Len(sections[i].children) :
         sections[sections[i].children[k]].level > sections[i].level

C1_Witness ==
  /\ (tool = "build" /\ pc = "done")
  /\ \E a, b, c \in 2..Len(sections) :
       /\ ParentsOf(a) = {<<1, 1>>}
       /\ \E k \in 1..2 : <<a, k>> \in ParentsOf(b)
       /\ <<b, 1>> \in ParentsOf(c)
  /\ Len(sections[1].children) = 2

\* C2: after every loop iteration the stack's levels are strictly increasing
\* from bottom to top, with the level-0 root at the bottom.
C2_StackIncreasing ==
  (tool = "build" /\ pc # "idle") =>
    /\ stack # <<>>
    /\ stack[1] = 1
    /\ sections[1].level = 0
    /\ \A i \in 1..(Len(stack) - 1) :
         sections[stack[i]].level < sections[stack[i + 1]].level

C2_Witness ==
  /\ (tool = "build" /\ pc = "loop")
  /\ Len(stack) = 3
  /\ Len(sections) = 5
  /\ Len(paragraphs) = 4

\* C3: every heading of level L creates exactly one Section, appended as the
\* last child of the most recent still-open section of level < L (the root if
\* none), and closes every open section of level >= L; levels [1, 2, 1, 3]
\* give root -> {H1_a -> {H2_a}, H1_b -> {H3_a}}.
C3_HeadingPlacement ==
  (tool = "build" /\ pc # "idle") =>
    LET lv == HeadLevels
        n == Len(lv)
    IN  /\ Len(sections) = n + 1
        /\ \A i \in 1..n :
             /\ sections[i + 1].level = lv[i]
             /\ Cardinality(ParentsOf(i + 1)) = 1
             /\ \E k \in 1..Len(sections) :
                  <<ExpectedParent(lv, i), k>> \in ParentsOf(i + 1)
        /\ \A q \in 1..(n + 1) : \A k \in 1..(Len(sections[q].children) - 1) :
             sections[q].children[k] < sections[q].children[k + 1]
        /\ \A j \in 1..n :
             (\E k \in 1..Len(stack) : stack[k] = j + 1) <=> OpenAfter(lv, j, n)
        /\ n > 0 => Last(stack) = n + 1
        /\ lv = <<1, 2, 1, 3>> =>
             /\ sections[1].children = <<2, 4>>
             /\ sections[2].children = <<3>>
             /\ sections[4].children = <<5>>
             /\ sections[3].children = <<>>
             /\ sections[5].children = <<>>

C3_Witness == (tool = "build" /\ pc = "done") /\ HeadLevels = <<1, 2, 1, 3>>

\* C4: a non-heading paragraph changes at most the content list of the stack
\* top: its text is appended once there unless it is suppressed (empty, a
\* "Case No. ..." banner, a bare page number), in which case nothing changes;
\* the stack and every other section stay as they were.
C4_BodyParagraphFrame ==
  [][ ((tool = "build" /\ pc = "loop") /\ paragraphs' # paragraphs /\ ~IsHeading(Last(paragraphs'))) =>
        LET t == Last(paragraphs').text
            top == Last(stack)
        IN  /\ stack' = stack
            /\ Len(sections') = Len(sections)
            /\ \A i \in 1..Len(sections) : i # top => sections'[i] = sections[i]
            /\ sections'[top].title = sections[top].title
            /\ sections'[top].level = sections[top].level
            /\ sections'[top].children = sections[top].children
            /\ sections'[top].content =
                 IF _should_skip_paragraph(t) THEN sections[top].content
                 ELSE Append(sections[top].content, t)
            /\ HeadLevels = <<>> => top = 1
            /\ t \in {T_CaseNo, T_PageOf, T_Blank} => sections' = sections
            /\ t \in {T_Intro, T_Page3} => sections' # sections
    ]_vars

C4_Witness ==
  /\ (tool = "build" /\ pc = "loop")
  /\ Len(paragraphs) = 4
  /\ IsHeading(paragraphs[1]) /\ IsHeading(paragraphs[2])
  /\ paragraphs[3].text = T_CaseNo /\ ~IsHeading(paragraphs[3])
  /\ paragraphs[4].text = T_Page3 /\ ~IsHeading(paragraphs[4])
  /\ Len(stack) = 3
  /\ sections[Last(stack)].content = <<T_Page3>>

----------------------------------------------------------------------------
(* Properties of apply_replacements *)

OpenWT == <<60,119,58,116,62>>          \* "<w:t>"

OpenWTAttr == <<60,119,58,116,32>>      \* "<w:t "

\* the number of w:t elements of s whose whole text is exactly ph
CountNodes(s, ph) ==
  Cardinality({ i \in 1..Len(s) :
    /\ StartsAt(s, i, OpenWT) \/ StartsAt(s, i, OpenWTAttr)
    /\ FirstGT(s, i + 4) # 0
    /\ StartsAt(s, FirstGT(s, i + 4) + 1, ph \o CloseWT) })

NotFoundFmt == "Placeholder '{}' not found in any <w:t> node"

\* C6: when apply_replacements succeeds, the count reported for each key is the
\* number of <w:t> nodes of the original input whose whole text is that key's
\* placeholder, whatever the other replacement values are.
C6_CountsMatchInput ==
  (tool = "subst" /\ pc = "applied") =>
    \A i \in 1..Len(PLACEHOLDERS) :
      counts[PLACEHOLDERS[i].key] = CountNodes(xml_text, PLACEHOLDERS[i].text)

\* C10 as stated: after a successful run, applying the replacements again to
\* the substituted XML fails with the placeholder-not-found error.
C10_SecondRunFails ==
  (tool = "subst" /\ pc = "applied") =>
    LET r == apply_replacements(updated, values)
    IN  r.exc # <<>> /\ r.exc[1].msg[1] = NotFoundFmt

\* C10 (amended): after a successful run in which no replacement value is the
\* text "No. 6461", applying the replacements again to the substituted XML
\* fails with the placeholder-not-found error.
C10_SecondRunFailsUnlessReintroduced ==
  (tool = "subst" /\ pc = "applied" /\ \A k \in Keys : values[k] # <<PH_case>>) =>
    LET r == apply_replacements(updated, values)
    IN  /\ r.exc # <<>>
        /\ r.exc[1].msg = <<NotFoundFmt, "No. 6461">>

C10_Witness ==
  /\ tool = "subst" /\ pc = "applied"
  /\ values[K_case] = <<PH_filing>>
  /\ values[K_filing] = <<V_amp>>
  /\ values[K_judge] = <<PH_filing>>
  /\ counts[K_filing] = 2
  /\ apply_replacements(updated, values).exc # <<>>

----------------------------------------------------------------------------
(* Properties of the command-line runs *)

MissingFmt == "Missing replacement value for {}"

InvalidFmt == "XML became invalid after replacing {}: ..."

CollisionFmt == "Output path must differ from template to preserve the source file"

\* the exception raised last came out of apply_replacements
ApplyFailed == exc # <<>> /\ exc[1].msg[1] \in {MissingFmt, NotFoundFmt, InvalidFmt}

\* a directory or a file was created or written since the run started
Written == fs # fs0 \/ dirs # {"."}

SamePath == Resolve(args.output) = Resolve(args.template)

\* C5: no partial success in a cover run: when a step of apply_replacements
\* fails the run stops at that step, nothing is returned and nothing has been
\* created or written; anything is written only after all three substitutions
\* succeeded and were validated.
C5_NoPartialSuccess ==
  tool = "cover" =>
    /\ ApplyFailed =>
         /\ pc \in {"raised", "exit"}
         /\ kidx < Len(PLACEHOLDERS)
         /\ DOMAIN counts = {PLACEHOLDERS[i].key : i \in 1..kidx}
         /\ ~Written
         /\ stdout = <<>>
         /\ exitcode \in {-1, 1}
    /\ Written =>
         /\ exc = <<>>
         /\ kidx = Len(PLACEHOLDERS)
         /\ DOMAIN counts = Keys
         /\ \A k \in Keys : counts[k] >= 1
         /\ WellFormed(updated)
         /\ ~args.dry_run

C5_Witness ==
  /\ tool = "cover" /\ pc = "exit"
  /\ ApplyFailed /\ exc[1].msg = <<InvalidFmt, "APPELLANTS OPENING BRIEF">>
  /\ kidx = 1
  /\ ~args.dry_run /\ args.output = P_out
  /\ fs[P_out] = NoFile

\* C7: in both tools every failing run is caught once by the handler, prints
\* one line "Error: <message>" to stderr and exits with status 1; a run that
\* prints no "Error: " line completed normally.
C7_FailuresReported ==
  (tool \in {"cover", "akn"} /\ pc = "exit") =>
    /\ exc # <<>> =>
         /\ caught = 1
         /\ stderr = << [prefix |-> "Error: ", msg |-> exc[1].msg] >>
         /\ exitcode = 1
    /\ (\A i \in 1..Len(stderr) : stderr[i].prefix # "Error: ") =>
         /\ exc = <<>>
         /\ exitcode = 0

\* C8: write_docx to an output path other than the template writes an archive
\* with the source's entries in the source's order, every entry but
\* word/document.xml with the source's bytes, word/document.xml with the UTF-8
\* encoding of the transformed XML, and leaves the source archive as it was.
C8_ArchiveRoundTrip ==
  [][ (tool = "cover" /\ pc = "applied" /\ pc' # pc /\ ~args.dry_run /\ ~SamePath) =>
        LET src == fs[Resolve(args.template)].entries
            out == fs'[Resolve(args.output)]
        IN  /\ out.kind = "zip"
            /\ Len(out.entries) = Len(src)
            /\ \A i \in 1..Len(src) :
                 /\ out.entries[i].filename = src[i].filename
                 /\ out.entries[i].info = src[i].info
                 /\ src[i].filename # DocName => out.entries[i].data = src[i].data
                 /\ src[i].filename = DocName =>
                      /\ out.entries[i].data = Utf8Encode(updated)
                      /\ Utf8Decode(out.entries[i].data) = updated
            /\ fs'[Resolve(args.template)] = fs[Resolve(args.template)]
    ]_vars

C8_Witness ==
  /\ tool = "cover" /\ pc = "exit"
  /\ args.template = P_link /\ args.output = P_out
  /\ fs[P_out].kind = "zip"
  /\ Len(fs[P_out].entries) = 3
  /\ fs[P_out].entries[1].filename = DocName
  /\ fs[P_out].entries[3].filename = DocName
  /\ fs[P_out].entries[1].data # fs[P_in].entries[1].data
  /\ fs[P_out].entries[2] = E_types
  /\ fs[P_in] = fs0[P_in]

\* C9 as stated: a cover run whose output path resolves to the template's path
\* fails with the path-collision error and writes no file.
C9_SamePathFailsWithCollision ==
  (tool = "cover" /\ pc = "exit" /\ SamePath) =>
    /\ exc # <<>>
    /\ exc[1].msg[1] = CollisionFmt
    /\ stderr = << [prefix |-> "Error: ", msg |-> exc[1].msg] >>
    /\ exitcode = 1
    /\ ~Written

\* C9 (amended): a cover run whose output path resolves to the template's path
\* never writes (no directory is created, no file changes), and when it gets
\* as far as write_docx, that call fails with the path-collision error, which
\* the handler reports with exit status 1.
C9_SamePathNeverWrites ==
  [][ (tool = "cover" /\ SamePath) =>
        /\ fs' = fs
        /\ dirs' = dirs
        /\ (pc = "applied" /\ ~args.dry_run /\ pc' # pc) =>
             /\ pc' = "raised"
             /\ exc' = << Exc("ValueError", CollisionFmt, "") >>
        /\ (pc = "raised" /\ pc' = "exit" /\ exc[1].msg[1] = CollisionFmt) =>
             /\ stderr' = << [prefix |-> "Error: ", msg |-> exc[1].msg] >>
             /\ exitcode' = 1
    ]_vars

C9_Witness ==
  /\ tool = "cover" /\ pc = "exit"
  /\ args.template = P_link /\ args.output = P_in
  /\ exc # <<>> /\ exc[1].msg[1] = CollisionFmt
  /\ exitcode = 1
  /\ ~Written

====
